---------------------------- MODULE Spec2Model ----------------------------
(***************************************************************************)
(* A model of the Snooflake ID generator (src/snooflake.go).               *)
(*                                                                         *)
(* Go's int64 / uint64 / time.Duration values are kept at their real       *)
(* width.  TLC's integers are 32 bits wide, so a 64-bit machine word is    *)
(* represented as its eight bytes, least significant first (a function     *)
(* 1..8 -> 0..255); signed values are in two's complement, as in Go.  The  *)
(* word operators below are the Go operators +, -, *, /, %, <<, >>, &, |   *)
(* and the comparisons on such words.                                      *)
(***************************************************************************)
EXTENDS Integers, Sequences, FiniteSets, TLC

\* ------------------------------------------------------------------------
\* 64-bit words
\* ------------------------------------------------------------------------

ByteBase == 2^8
WordBytes == 64 \div 8
Idx == 1..WordBytes

\* The element of a one-element set.  The operators below bind their
\* operands through such sets, so that an operand is evaluated once and
\* then used as a value.
The(S) == CHOOSE w \in S : TRUE

\* The k low bytes of the natural number n.
RECURSIVE NatBytes(_, _)
NatBytes(n, k) ==
  IF k = 0 THEN <<>> ELSE <<n % ByteBase>> \o NatBytes(n \div ByteBase, k - 1)

\* The word of a small natural number n (0 <= n < 2^31).
WordOfNat(n) == NatBytes(n, WordBytes)

Zero == WordOfNat(0)
One == WordOfNat(1)

\* The bytes i.. of x + y + c, c being the carry into byte i.
RECURSIVE AddFrom(_, _, _, _)
AddFrom(x, y, i, c) ==
  IF i > WordBytes
  THEN <<>>
  ELSE The({<<s % ByteBase>> \o AddFrom(x, y, i + 1, s \div ByteBase) :
              s \in {x[i] + y[i] + c}})

\* x + y, wrapping at 2^64.
Add(x, y) == The({AddFrom(a, b, 1, 0) : a \in {x}, b \in {y}})

\* ^x, the bitwise complement.
Not(x) == The({[i \in Idx |-> (ByteBase - 1) - a[i]] : a \in {x}})

\* -x in two's complement.
Neg(x) == The({AddFrom(a, Zero, 1, 1) : a \in {Not(x)}})

\* x - y, wrapping at 2^64.
Sub(x, y) == The({AddFrom(a, b, 1, 1) : a \in {x}, b \in {Not(y)}})

\* The int64 word of a small integer n (-2^31 < n < 2^31).
WordOfInt(n) == IF n >= 0 THEN WordOfNat(n) ELSE Neg(WordOfNat(-n))

\* The sign bit of an int64.
IsNeg(x) == x[WordBytes] >= ByteBase \div 2

\* x < y for uint64 operands, decided by the bytes i..1 (the higher bytes
\* being equal).
RECURSIVE ULessFrom(_, _, _)
ULessFrom(x, y, i) ==
  IF i = 0 THEN FALSE
  ELSE IF x[i] # y[i] THEN x[i] < y[i] ELSE ULessFrom(x, y, i - 1)

ULess(x, y) == The({ULessFrom(a, b, WordBytes) : a \in {x}, b \in {y}})

\* x < y for int64 operands.
SLess(x, y) ==
  The({IF IsNeg(a) # IsNeg(b) THEN IsNeg(a) ELSE ULess(a, b) :
         a \in {x}, b \in {y}})

\* The bytes i.. of x * k + c, for a multiplier 0 <= k <= 2^22.
RECURSIVE MulFrom(_, _, _, _)
MulFrom(x, k, i, c) ==
  IF i > WordBytes
  THEN <<>>
  ELSE The({<<p % ByteBase>> \o MulFrom(x, k, i + 1, p \div ByteBase) :
              p \in {x[i] * k + c}})

\* x * k, wrapping at 2^64.
MulSmall(x, k) == The({MulFrom(a, k, 1, 0) : a \in {x}})

\* Long division of a non-negative x by d (0 < d <= 2^22): the bytes 1..i
\* of the quotient, r being the remainder of the bytes above i.
RECURSIVE DivFrom(_, _, _, _)
DivFrom(x, d, i, r) ==
  IF i = 0
  THEN <<>>
  ELSE The({DivFrom(x, d, i - 1, n % d) \o <<n \div d>> :
              n \in {r * ByteBase + x[i]}})

RECURSIVE ModFrom(_, _, _, _)
ModFrom(x, d, i, r) ==
  IF i = 0 THEN r
  ELSE The({ModFrom(x, d, i - 1, n % d) : n \in {r * ByteBase + x[i]}})

\* x / d and x % d for a non-negative x.
UDivSmall(x, d) == The({DivFrom(a, d, WordBytes, 0) : a \in {x}})
UModSmall(x, d) == The({ModFrom(a, d, WordBytes, 0) : a \in {x}})

\* Go's x / d and x % d on int64: the quotient truncates toward zero and the
\* remainder (a small integer) has the sign of x.
Quo(x, d) ==
  The({IF IsNeg(a) THEN Neg(UDivSmall(Neg(a), d)) ELSE UDivSmall(a, d) :
         a \in {x}})
Rem(x, d) ==
  The({IF IsNeg(a) THEN 0 - UModSmall(Neg(a), d) ELSE UModSmall(a, d) :
         a \in {x}})

\* x with its bytes moved up by q places (q < 0: down), zeros moving in.
MoveBytes(x, q) ==
  The({[i \in Idx |-> IF i - q >= 1 /\ i - q <= WordBytes THEN a[i - q] ELSE 0] :
         a \in {x}})

\* x << n on uint64 (bits shifted out at the top are lost).
Shl(x, n) ==
  IF n >= 64 THEN Zero ELSE MulSmall(MoveBytes(x, n \div 8), 2^(n % 8))

\* x >> n on uint64 (logical shift).
Shr(x, n) ==
  IF n >= 64 THEN Zero ELSE UDivSmall(MoveBytes(x, 0 - (n \div 8)), 2^(n % 8))

\* Bit i of the byte a.
BitOf(a, i) == (a \div (2^i)) % 2

\* The bits i..7 of a & b and of a | b.
RECURSIVE ByteAndFrom(_, _, _)
ByteAndFrom(a, b, i) ==
  IF i > 7 THEN 0
  ELSE (IF BitOf(a, i) = 1 /\ BitOf(b, i) = 1 THEN 2^i ELSE 0)
         + ByteAndFrom(a, b, i + 1)

RECURSIVE ByteOrFrom(_, _, _)
ByteOrFrom(a, b, i) ==
  IF i > 7 THEN 0
  ELSE (IF BitOf(a, i) = 1 \/ BitOf(b, i) = 1 THEN 2^i ELSE 0)
         + ByteOrFrom(a, b, i + 1)

ByteAnd(a, b) ==
  IF a = 0 \/ b = 0 THEN 0
  ELSE IF a = ByteBase - 1 THEN b
  ELSE IF b = ByteBase - 1 THEN a ELSE ByteAndFrom(a, b, 0)

ByteOr(a, b) ==
  IF a = 0 THEN b ELSE IF b = 0 THEN a ELSE ByteOrFrom(a, b, 0)

\* The bytes i.. of x & y and of x | y.
RECURSIVE AndFrom(_, _, _)
AndFrom(x, y, i) ==
  IF i > WordBytes THEN <<>>
  ELSE <<ByteAnd(x[i], y[i])>> \o AndFrom(x, y, i + 1)

RECURSIVE OrFrom(_, _, _)
OrFrom(x, y, i) ==
  IF i > WordBytes THEN <<>>
  ELSE <<ByteOr(x[i], y[i])>> \o OrFrom(x, y, i + 1)

\* x & y and x | y on uint64.
And(x, y) == The({AndFrom(a, b, 1) : a \in {x}, b \in {y}})
Or(x, y) == The({OrFrom(a, b, 1) : a \in {x}, b \in {y}})

\* Conversions uint64(v) of a uint16 value and of an int64 value (the same bits).
Uint64OfUint16(v) == WordOfNat(v)
Uint64OfInt64(x) == x

\* a & b on uint16 operands.
And16(a, b) ==
  ByteAnd(a % ByteBase, b % ByteBase)
    + ByteBase * ByteAnd(a \div ByteBase, b \div ByteBase)

\* ------------------------------------------------------------------------
\* Constants of the package
\* ------------------------------------------------------------------------

BitLenTime == 39
BitLenSequence == 8
BitLenMachineID == 63 - BitLenTime - BitLenSequence

\* snooflakeTimeUnit, in nanoseconds.
snooflakeTimeUnit == 1000000

\* time.Millisecond, in nanoseconds (a time.Duration counts nanoseconds).
Millisecond == 1000000

\* time.Date(2014, 9, 1, 0, 0, 0, 0, time.UTC) as seconds since the Unix epoch,
\* and the nanoseconds of a second.
DefaultStartSeconds == 1409529600
NanosPerSecond == 1000 * 1000 * 1000

\* A time.Time is modelled by its UnixNano() value (an int64 word) and a
\* flag for the zero time.Time (year 1, which has no UnixNano value).
TimeOf(nano) == [zero |-> FALSE, nano |-> nano]
ZeroTime == [zero |-> TRUE, nano |-> Zero]
IsZero(t) == t.zero
UnixNano(t) == t.nano

DefaultStartTime ==
  TimeOf(MulSmall(MulSmall(WordOfNat(DefaultStartSeconds), 1000),
                  NanosPerSecond \div 1000))

\* t.After(u), u being a clock reading (never the zero time).
After(t, u) == IF IsZero(t) THEN FALSE ELSE SLess(UnixNano(u), UnixNano(t))

NoErr == "nil"
ErrOverTime == "over the time limit"
ErrNoPrivateIP == "no private ip address"

\* The nil *Snooflake.
NilSnooflake == [nil |-> TRUE]

\* ------------------------------------------------------------------------
\* Time helpers
\* ------------------------------------------------------------------------

toSnooflakeTime(t) == Quo(UnixNano(t), snooflakeTimeUnit)

currentElapsedTime(startTime, now) == Sub(toSnooflakeTime(now), startTime)

\* Variant of sleepTime with the operands of the subtraction exchanged.
sleepTimeReversed(overtime, now) ==
  Sub(WordOfInt(Rem(UnixNano(now), snooflakeTimeUnit)),
      MulSmall(overtime, Millisecond))

\* The time.Duration nextID sleeps for, given the clock reading now.
sleepTime(overtime, now) ==
  Sub(MulSmall(overtime, Millisecond),
      WordOfInt(Rem(UnixNano(now), snooflakeTimeUnit)))

\* ------------------------------------------------------------------------
\* Codec
\* ------------------------------------------------------------------------

\* Variant of toID without the time-limit check.
toIDUnchecked(sf) ==
  [id |-> Or(Or(Shl(Uint64OfInt64(sf.elapsedTime),
                    BitLenSequence + BitLenMachineID),
                Shl(Uint64OfUint16(sf.sequence), BitLenMachineID)),
             Uint64OfUint16(sf.machineID)),
   err |-> NoErr]

\* Variant of toID that leaves the machine ID out of the ID.
toIDWithoutMachineID(sf) ==
  IF ~SLess(sf.elapsedTime, Shl(One, BitLenTime))
  THEN [id |-> Zero, err |-> ErrOverTime]
  ELSE [id |-> Or(Shl(Uint64OfInt64(sf.elapsedTime),
                      BitLenSequence + BitLenMachineID),
                  Shl(Uint64OfUint16(sf.sequence), BitLenMachineID)),
        err |-> NoErr]

\* sf.toID(): the pair (id, err).
toID(sf) ==
  IF ~SLess(sf.elapsedTime, Shl(One, BitLenTime))
  THEN [id |-> Zero, err |-> ErrOverTime]
  ELSE [id |-> Or(Or(Shl(Uint64OfInt64(sf.elapsedTime),
                         BitLenSequence + BitLenMachineID),
                     Shl(Uint64OfUint16(sf.sequence), BitLenMachineID)),
                  Uint64OfUint16(sf.machineID)),
        err |-> NoErr]

maskSequence == Shl(WordOfNat(2^BitLenSequence - 1), BitLenMachineID)
maskMachineID == WordOfNat(2^BitLenMachineID - 1)

\* Variant of Decompose reading id & maskSequence >> BitLenMachineID as
\* id & (maskSequence >> BitLenMachineID).
DecomposeShiftedMask(id) ==
  [k \in {"id", "msb", "time", "sequence", "machine-id"} |->
     CASE k = "id" -> id
       [] k = "msb" -> Shr(id, 63)
       [] k = "time" -> Shr(id, BitLenSequence + BitLenMachineID)
       [] k = "sequence" -> And(id, Shr(maskSequence, BitLenMachineID))
       [] k = "machine-id" -> And(id, maskMachineID)]

\* Variant of Decompose that masks the time to BitLenTime bits.
DecomposeTimeMasked(id) ==
  [k \in {"id", "msb", "time", "sequence", "machine-id"} |->
     CASE k = "id" -> id
       [] k = "msb" -> Shr(id, 63)
       [] k = "time" -> And(Shr(id, BitLenSequence + BitLenMachineID),
                            Sub(Shl(One, BitLenTime), One))
       [] k = "sequence" -> Shr(And(id, maskSequence), BitLenMachineID)
       [] k = "machine-id" -> And(id, maskMachineID)]

\* Decompose(id): the map of the ID's parts.
Decompose(id) ==
  [k \in {"id", "msb", "time", "sequence", "machine-id"} |->
     CASE k = "id" -> id
       [] k = "msb" -> Shr(id, 63)
       [] k = "time" -> Shr(id, BitLenSequence + BitLenMachineID)
       [] k = "sequence" -> Shr(And(id, maskSequence), BitLenMachineID)
       [] k = "machine-id" -> And(id, maskMachineID)]

\* ------------------------------------------------------------------------
\* The generator
\* ------------------------------------------------------------------------

\* The mask of nextID (a uint16).
maskSequence16 == 2^BitLenSequence - 1

\* Variant of nextIDUpdate that takes the clock reading whenever it differs
\* from elapsedTime, so also when the clock is behind.
nextIDFollowsClock(sf, current) ==
  IF sf.elapsedTime # current
  THEN [sf EXCEPT !.elapsedTime = current, !.sequence = 0]
  ELSE LET s == And16((sf.sequence + 1) % (2^16), 2^BitLenSequence - 1)
       IN  IF s = 0
           THEN [sf EXCEPT !.sequence = s, !.elapsedTime = Add(@, One)]
           ELSE [sf EXCEPT !.sequence = s]

\* Variant of nextIDUpdate that does not add 1 to elapsedTime when the
\* sequence wraps.
nextIDWrapsInPlace(sf, current) ==
  IF SLess(sf.elapsedTime, current)
  THEN [sf EXCEPT !.elapsedTime = current, !.sequence = 0]
  ELSE [sf EXCEPT !.sequence =
                    And16((sf.sequence + 1) % (2^16), 2^BitLenSequence - 1)]

\* Variant of nextIDUpdate that keeps the sequence when the time advances.
nextIDKeepsSequence(sf, current) ==
  IF SLess(sf.elapsedTime, current)
  THEN [sf EXCEPT !.elapsedTime = current]
  ELSE LET s == And16((sf.sequence + 1) % (2^16), 2^BitLenSequence - 1)
       IN  IF s = 0
           THEN [sf EXCEPT !.sequence = s, !.elapsedTime = Add(@, One)]
           ELSE [sf EXCEPT !.sequence = s]

\* The fields of sf after the branch of nextID, current being the clock
\* reading in time units since the start time.
nextIDUpdate(sf, current) ==
  IF SLess(sf.elapsedTime, current)
  THEN [sf EXCEPT !.elapsedTime = current, !.sequence = 0]
  ELSE LET s == And16((sf.sequence + 1) % (2^16), maskSequence16)
       IN  IF s = 0
           THEN [sf EXCEPT !.sequence = s, !.elapsedTime = Add(@, One)]
           ELSE [sf EXCEPT !.sequence = s]

\* Whether that branch took the sequence-overflow path (and so sleeps).
nextIDWraps(sf, current) ==
  /\ ~SLess(sf.elapsedTime, current)
  /\ And16((sf.sequence + 1) % (2^16), maskSequence16) = 0

\* Variant of NewSnooflake that never calls st.CheckMachineID.
NewSnooflakeUnvalidated(st, now, privateIP) ==
  LET startTime == IF IsZero(st.StartTime)
                   THEN toSnooflakeTime(DefaultStartTime)
                   ELSE toSnooflakeTime(st.StartTime)
      mid == IF st.MachineID.nil THEN privateIP ELSE st.MachineID
  IN  IF After(st.StartTime, now) \/ mid.err # NoErr
      THEN NilSnooflake
      ELSE [nil |-> FALSE,
            startTime |-> startTime,
            elapsedTime |-> Zero,
            sequence |-> 2^BitLenSequence - 1,
            machineID |-> mid.id]

\* Variant of NewSnooflake that starts the sequence at 0.
NewSnooflakeSequenceZero(st, now, privateIP) ==
  LET startTime == IF IsZero(st.StartTime)
                   THEN toSnooflakeTime(DefaultStartTime)
                   ELSE toSnooflakeTime(st.StartTime)
      mid == IF st.MachineID.nil THEN privateIP ELSE st.MachineID
  IN  IF After(st.StartTime, now)
      THEN NilSnooflake
      ELSE IF mid.err # NoErr
              \/ (~st.CheckMachineID.nil /\ mid.id \notin st.CheckMachineID.accepts)
           THEN NilSnooflake
           ELSE [nil |-> FALSE,
                 startTime |-> startTime,
                 elapsedTime |-> Zero,
                 sequence |-> 0,
                 machineID |-> mid.id]

\* NewSnooflake(st) at clock reading now.  st.MachineID and
\* st.CheckMachineID are func values: .nil says the field is nil; otherwise
\* .id and .err are what the provider returns, and .accepts is the set of
\* machine ids the validator returns true for.  privateIP is what
\* lower16BitPrivateIP() returns on this host.  The result is NilSnooflake
\* or the new generator.
NewSnooflake(st, now, privateIP) ==
  LET startTime == IF IsZero(st.StartTime)
                   THEN toSnooflakeTime(DefaultStartTime)
                   ELSE toSnooflakeTime(st.StartTime)
      mid == IF st.MachineID.nil THEN privateIP ELSE st.MachineID
  IN  IF After(st.StartTime, now)
      THEN NilSnooflake
      ELSE IF mid.err # NoErr
              \/ (~st.CheckMachineID.nil /\ mid.id \notin st.CheckMachineID.accepts)
           THEN NilSnooflake
           ELSE [nil |-> FALSE,
                 startTime |-> startTime,
                 elapsedTime |-> Zero,
                 sequence |-> 2^BitLenSequence - 1,
                 machineID |-> mid.id]

\* ------------------------------------------------------------------------
\* Bounds of the model
\* ------------------------------------------------------------------------

\* Threads calling the generators, and the generators of a fleet.
NumThreads == 2
NumGens == 2
\* The largest num passed to NextIDs.
MaxNum == 2
\* Calls are no longer started once the sequence has overflowed this often.
MaxWraps == 2
\* The number of calls started in a behaviour that bounds them.
MaxCalls == 2
\* The wall clock steps backward by less than this many msec.
MaxBackward == 30

Threads == 1..NumThreads
Gens == 1..NumGens

\* ------------------------------------------------------------------------
\* The environment: the wall clock and the settings
\* ------------------------------------------------------------------------

\* The configured start time T0 of the model: 1.3 msec after the default
\* start time, so 0.3 msec into the unit after it.
T0 == TimeOf(Add(UnixNano(DefaultStartTime), WordOfNat(1300000)))

\* 1 << BitLenTime, the first elapsed time that does not fit the time field.
TimeLimit == Shl(One, BitLenTime)

\* The clock readings the wall clock jumps between, as msec after T0: the
\* start time itself and the two units around the end of the time range.
ClockAt(offset) == Add(UnixNano(T0), MulSmall(offset, Millisecond))

ClockValues ==
  {ClockAt(Zero), ClockAt(Sub(TimeLimit, One)), ClockAt(TimeLimit)}

\* The clock readings of SpecSolo: T0 + 25 msec instead of the last one, so
\* that the time range ends only by the generator's own advance.
SoloClockValues ==
  {ClockAt(Zero), ClockAt(WordOfNat(25)), ClockAt(Sub(TimeLimit, One))}

NoFunc == [nil |-> TRUE, id |-> 0, err |-> NoErr, accepts |-> {}]
Provider(id) == [nil |-> FALSE, id |-> id, err |-> NoErr, accepts |-> {}]

\* The settings generator g is constructed with: generator 1 has the start
\* time T0 and the machine id 2^16 - 1 from its provider, the others the
\* default start time and the machine id g.
SettingsOf(g) ==
  [StartTime |-> IF g = 1 THEN T0 ELSE ZeroTime,
   MachineID |-> Provider(IF g = 1 THEN 2^BitLenMachineID - 1 ELSE g),
   CheckMachineID |-> NoFunc]

\* lower16BitPrivateIP() on a host whose private address is 10.0.1.2.
PrivateIP == [nil |-> FALSE, id |-> 1 * ByteBase + 2, err |-> NoErr, accepts |-> {}]

\* ------------------------------------------------------------------------
\* State
\* ------------------------------------------------------------------------

VARIABLES
  clock,      \* the wall clock: UnixNano() of time.Now()
  sf,         \* sf[g]: generator g (NilSnooflake when it is not constructed)
  mutex,      \* mutex[g]: the thread holding sf[g].mutex, or 0
  pc,         \* pc[t]: where thread t is
  fr,         \* fr[t]: the call of thread t and its local variables
  hist,       \* hist[g]: the last IDs generator g produced, oldest first
  run,        \* run[g]: the calls of g that read the clock in one time unit
  failed,     \* failed[g]: how many allocations of g have failed (2: two or more)
  wraps,      \* how often a sequence has overflowed
  calls,      \* the calls started, where a specification bounds them
  cin,        \* codec: the uint64 under test
  cout,       \* codec: Decompose(cin), once computed
  nin         \* construction: the Settings and host of the last NewSnooflake

vars == <<clock, sf, mutex, pc, fr, hist, run, failed, wraps, calls, cin, cout,
          nin>>

\* time.Now()
Now == TimeOf(clock)

\* fr[t]: the generator and the operation called, the arguments and locals
\* of NextIDs (num, i, ids; NextID keeps its result in ids[1]), the error
\* returned, the overtime of nextID, the clock reading the last nextID took
\* and which case it saw ("advance": elapsedTime < current, "same": equal,
\* "behind": elapsedTime > current).
NoFrame ==
  [g |-> 0, op |-> "none", num |-> 0, i |-> 0, ids |-> <<>>,
   err |-> NoErr, overtime |-> Zero, read |-> Zero, saw |-> "none"]

\* run[g] follows the nextID calls in a row that read the same time unit
\* off the clock, for the runs that begin with the generator at the start
\* of a time value: the first call finds elapsedTime below the unit (adv),
\* or equal to it with sequence 0.  unit is that unit (since the start
\* time), n counts the calls (up to RunCap; 0: no such run), first is
\* elapsedTime after the first of them.  same counts the IDs issued in a
\* row with the time field of the last one.
NoRun == [unit |-> Zero, n |-> 0, first |-> Zero, adv |-> FALSE, same |-> 0]

RunCap == 2^BitLenSequence + 2

\* cin: the uint64 under test and, when toID made it, the fields it was
\* made from.  cout: the result of Decompose, once it has run.
\* nin: the arguments of the last NewSnooflake call of SpecNew.
NoNew == [done |-> FALSE]

NoInput == [id |-> Zero, made |-> FALSE, t |-> Zero, s |-> 0, m |-> 0]
NoOutput == [done |-> FALSE, parts |-> [k \in {"id"} |-> Zero]]

\* The state after the construction of the generators gs, the codec idle.
InitGens(gs, clocks) ==
  /\ clock \in clocks
  /\ sf = [g \in Gens |-> IF g \in gs
                          THEN NewSnooflake(SettingsOf(g), Now, PrivateIP)
                          ELSE NilSnooflake]
  /\ \A g \in gs : ~sf[g].nil
  /\ mutex = [g \in Gens |-> 0]
  /\ pc = [t \in Threads |-> "idle"]
  /\ fr = [t \in Threads |-> NoFrame]
  /\ hist = [g \in Gens |-> <<>>]
  /\ run = [g \in Gens |-> NoRun]
  /\ failed = [g \in Gens |-> 0]
  /\ wraps = 0
  /\ calls = 0
  /\ cin = NoInput
  /\ cout = NoOutput
  /\ nin = NoNew

codecVars == <<cin, cout, nin>>

\* ------------------------------------------------------------------------
\* Actions
\* ------------------------------------------------------------------------

\* The wall clock moves to the reading v: forward, or backward by less than
\* MaxBackward msec.
Tick(v) ==
  /\ v # clock
  /\ \/ SLess(clock, v)
     \/ SLess(Sub(clock, v), MulSmall(WordOfNat(MaxBackward), Millisecond))
  /\ clock' = v
  /\ UNCHANGED <<sf, mutex, pc, fr, hist, run, failed, wraps, calls, codecVars>>

\* Thread t calls sf[g].NextID() (op = "NextID") or sf[g].NextIDs(num) and
\* reaches sf.mutex.Lock().
Call(t, g, op, num) ==
  /\ pc[t] = "idle"
  /\ ~sf[g].nil
  /\ wraps < MaxWraps
  /\ pc' = [pc EXCEPT ![t] = "lock"]
  /\ fr' = [fr EXCEPT ![t] = [NoFrame EXCEPT !.g = g, !.op = op, !.num = num]]
  /\ UNCHANGED <<clock, sf, mutex, hist, run, failed, wraps, codecVars>>

\* A call where the number of calls is not bounded, and one where it is.
FreeCall(t, g, op, num) == Call(t, g, op, num) /\ UNCHANGED calls

CountedCall(t, g, op, num) ==
  /\ calls < MaxCalls
  /\ Call(t, g, op, num)
  /\ calls' = calls + 1

\* Variant of MutexFree for a mutex that never blocks.
MutexNeverHeld(t, g) == TRUE

\* Whether thread t may take sf[g].mutex.
MutexFree(t, g) == mutex[g] = 0

\* sf.mutex.Lock() succeeds; NextIDs makes ids and enters its loop.
Lock(t) ==
  /\ pc[t] = "lock"
  /\ MutexFree(t, fr[t].g)
  /\ mutex' = [mutex EXCEPT ![fr[t].g] = t]
  /\ fr' = [fr EXCEPT ![t].ids = [k \in 1..fr[t].num |-> Zero]]
  /\ pc' = [pc EXCEPT ![t] = IF fr[t].op = "NextIDs" /\ ~(0 < fr[t].num)
                             THEN "return" ELSE "nextID"]
  /\ UNCHANGED <<clock, sf, hist, run, failed, wraps, calls, codecVars>>

\* nextID up to its call of sleepTime or toID.
NextIDStep(t) ==
  LET g == fr[t].g
      current == currentElapsedTime(sf[g].startTime, Now)
      new == nextIDUpdate(sf[g], current)
      wrapped == nextIDWraps(sf[g], current)
  IN  /\ pc[t] = "nextID"
      /\ sf' = [sf EXCEPT ![g] = new]
      /\ fr' = [fr EXCEPT ![t].overtime = IF wrapped
                                          THEN Sub(new.elapsedTime, current)
                                          ELSE Zero,
                          ![t].read = clock,
                          ![t].saw = IF SLess(sf[g].elapsedTime, current)
                                     THEN "advance"
                                     ELSE IF sf[g].elapsedTime = current
                                          THEN "same" ELSE "behind"]
      /\ pc' = [pc EXCEPT ![t] = IF wrapped THEN "sleep" ELSE "toID"]
      /\ wraps' = IF wrapped THEN wraps + 1 ELSE wraps
      /\ run' = [run EXCEPT ![g] =
                   IF @.n > 0 /\ @.unit = current
                   THEN [@ EXCEPT !.n = IF @ < RunCap THEN @ + 1 ELSE @]
                   ELSE IF \/ SLess(sf[g].elapsedTime, current)
                           \/ sf[g].elapsedTime = current /\ sf[g].sequence = 0
                        THEN [@ EXCEPT !.unit = current, !.n = 1,
                                       !.first = new.elapsedTime,
                                       !.adv = SLess(sf[g].elapsedTime,
                                                     current)]
                        ELSE [NoRun EXCEPT !.same = run[g].same]]
      /\ UNCHANGED <<clock, mutex, hist, failed, calls, codecVars>>

\* time.Sleep(sleepTime(overtime)): the clock is read again, and the sleep
\* lasts the duration asked for when that is positive.
Sleep(t) ==
  LET d == sleepTime(fr[t].overtime, Now)
  IN  /\ pc[t] = "sleep"
      /\ clock' = IF SLess(Zero, d) THEN Add(clock, d) ELSE clock
      /\ pc' = [pc EXCEPT ![t] = "toID"]
      /\ UNCHANGED <<sf, mutex, fr, hist, run, failed, wraps, calls, codecVars>>

\* hist keeps the last HistLen IDs of a generator.
HistLen == IF MaxNum < 2 THEN 2 ELSE MaxNum

Remember(h, e) ==
  IF Len(h) < HistLen THEN Append(h, e) ELSE Append(Tail(h), e)

\* return sf.toID() at the end of nextID, and what the caller does with the
\* result: NextID returns it; NextIDs returns ids and the error, or stores
\* the ID in ids[i] and goes round its loop.
ToID(t) ==
  LET g == fr[t].g
      r == toID(sf[g])
      i == fr[t].i
  IN  /\ pc[t] = "toID"
      /\ hist' = IF r.err = NoErr
                 THEN [hist EXCEPT ![g] = Remember(@, [id |-> r.id, by |-> t])]
                 ELSE hist
      /\ failed' = IF r.err = NoErr THEN failed
                    ELSE [failed EXCEPT ![g] = IF @ < 2 THEN @ + 1 ELSE @]
      /\ run' = IF r.err # NoErr THEN run
                ELSE [run EXCEPT ![g].same =
                        IF /\ hist[g] # <<>>
                           /\ Shr(hist[g][Len(hist[g])].id,
                                  BitLenSequence + BitLenMachineID)
                                = sf[g].elapsedTime
                        THEN IF @ < RunCap THEN @ + 1 ELSE @
                        ELSE 1]
      /\ IF fr[t].op = "NextID"
         THEN /\ fr' = [fr EXCEPT ![t].ids = <<r.id>>, ![t].err = r.err,
                                  ![t].i = IF r.err = NoErr THEN 1 ELSE 0]
              /\ pc' = [pc EXCEPT ![t] = "return"]
         ELSE IF r.err # NoErr
              THEN /\ fr' = [fr EXCEPT ![t].err = r.err]
                   /\ pc' = [pc EXCEPT ![t] = "return"]
              ELSE /\ fr' = [fr EXCEPT ![t].ids[i + 1] = r.id, ![t].i = i + 1]
                   /\ pc' = [pc EXCEPT ![t] = IF i + 1 < fr[t].num
                                              THEN "nextID" ELSE "return"]
      /\ UNCHANGED <<clock, sf, mutex, wraps, calls, codecVars>>

\* Variant of Return in which the deferred Unlock is missing.
ReturnKeepsLock(t) ==
  /\ pc[t] = "return"
  /\ pc' = [pc EXCEPT ![t] = "idle"]
  /\ fr' = [fr EXCEPT ![t] = NoFrame]
  /\ UNCHANGED <<clock, sf, mutex, hist, run, failed, wraps, calls, codecVars>>

\* The call returns fr[t].ids and fr[t].err to its caller: the deferred
\* sf.mutex.Unlock() runs.
Return(t) ==
  /\ pc[t] = "return"
  /\ mutex' = [mutex EXCEPT ![fr[t].g] = 0]
  /\ pc' = [pc EXCEPT ![t] = "idle"]
  /\ fr' = [fr EXCEPT ![t] = NoFrame]
  /\ UNCHANGED <<clock, sf, hist, run, failed, wraps, calls, codecVars>>

\* The steps of a call in progress.
Step(t) ==
  \/ Lock(t)
  \/ NextIDStep(t)
  \/ Sleep(t)
  \/ ToID(t)
  \/ Return(t)

\* ------------------------------------------------------------------------
\* Specifications
\* ------------------------------------------------------------------------

\* SpecSolo: one generator and one thread that calls NextID any number of
\* times.
SoloInit == InitGens({1}, SoloClockValues)

SoloNext ==
  \/ \E v \in SoloClockValues : Tick(v)
  \/ FreeCall(1, 1, "NextID", 1)
  \/ Step(1)

SpecSolo == SoloInit /\ [][SoloNext]_vars

\* Spec: one generator and NumThreads threads that make MaxCalls calls of
\* NextID and NextIDs between them.
Init == InitGens({1}, ClockValues)

Next ==
  \/ \E v \in ClockValues : Tick(v)
  \/ \E t \in Threads :
       \/ CountedCall(t, 1, "NextID", 1)
       \/ \E num \in 0..MaxNum : CountedCall(t, 1, "NextIDs", num)
       \/ Step(t)

Spec == Init /\ [][Next]_vars

\* SpecFleet: a fleet of NumGens generators with different machine ids, on
\* which one thread makes MaxCalls calls of NextID and NextIDs.
FleetInit == InitGens(Gens, ClockValues)

FleetNext ==
  \/ \E v \in ClockValues : Tick(v)
  \/ \E g \in Gens : CountedCall(1, g, "NextID", 1)
  \/ \E g \in Gens, num \in 0..MaxNum : CountedCall(1, g, "NextIDs", num)
  \/ Step(1)

SpecFleet == FleetInit /\ [][FleetNext]_vars

\* SpecCodec: the codec alone.  toID packs fields drawn from the corners of
\* their ranges, or an arbitrary uint64 is taken, and Decompose unpacks it.
TimeSamples ==
  {Zero, One, WordOfNat(2), WordOfNat(25), WordOfNat(2^24 - 1),
   Shl(One, BitLenTime - 1), Sub(Shl(One, BitLenTime - 1), One),
   Sub(TimeLimit, WordOfNat(2)), Sub(TimeLimit, One)}

SequenceSamples == {0, 1, 2^(BitLenSequence - 1), 2^BitLenSequence - 1}

MachineIDSamples ==
  {0, 1, ByteBase + 2, 2^(BitLenMachineID - 1), 2^BitLenMachineID - 1}

WordSamples ==
  {Zero, One, Not(Zero), Shl(One, 63), Not(Shl(One, 63)),
   maskSequence, maskMachineID, Not(maskSequence), Not(maskMachineID),
   Shl(One, BitLenSequence + BitLenMachineID),
   Shl(Not(Zero), BitLenSequence + BitLenMachineID),
   [i \in Idx |-> 170], [i \in Idx |-> 85]}

CodecInit ==
  /\ InitGens({}, {ClockAt(Zero)})

\* id, _ := sf.toID() for a generator with the given fields.
Encode(t, s, m) ==
  LET r == toID([elapsedTime |-> t, sequence |-> s, machineID |-> m])
  IN  /\ r.err = NoErr
      /\ cin' = [id |-> r.id, made |-> TRUE, t |-> t, s |-> s, m |-> m]
      /\ cout' = NoOutput
      /\ UNCHANGED <<clock, sf, mutex, pc, fr, hist, run, failed, wraps, calls,
                      nin>>

\* Any uint64 is taken as the input.
Take(w) ==
  /\ cin' = [NoInput EXCEPT !.id = w]
  /\ cout' = NoOutput
  /\ UNCHANGED <<clock, sf, mutex, pc, fr, hist, run, failed, wraps, calls,
                  nin>>

\* Decompose(id) runs on the input.
Decode ==
  /\ ~cout.done
  /\ cout' = [done |-> TRUE, parts |-> Decompose(cin.id)]
  /\ UNCHANGED <<clock, sf, mutex, pc, fr, hist, run, failed, wraps, calls,
                  cin, nin>>

CodecNext ==
  \/ \E t \in TimeSamples, s \in SequenceSamples, m \in MachineIDSamples :
       Encode(t, s, m)
  \/ \E w \in WordSamples : Take(w)
  \/ Decode

SpecCodec == CodecInit /\ [][CodecNext]_vars


\* SpecForward: one generator and one thread calling NextID, with a clock
\* that never goes back.  The instants lie at different offsets within
\* their time units.
ForwardClockValues ==
  {ClockAt(Zero), Add(ClockAt(Zero), WordOfNat(500000)),
   Add(ClockAt(Zero), WordOfNat(snooflakeTimeUnit - 300000)),
   ClockAt(One), ClockAt(WordOfNat(25)), ClockAt(Sub(TimeLimit, One))}

TickForward(v) == SLess(clock, v) /\ Tick(v)

ForwardInit == InitGens({1}, ForwardClockValues)

ForwardNext ==
  \/ \E v \in ForwardClockValues : TickForward(v)
  \/ FreeCall(1, 1, "NextID", 1)
  \/ Step(1)

SpecForward == ForwardInit /\ [][ForwardNext]_vars

\* SpecLive: the threads of Spec under fair scheduling, with a clock that
\* only advances.  A thread that can take a step of its call eventually
\* takes it (a running goroutine proceeds, a sleep ends), and a thread that
\* can take the mutex again and again eventually gets it (sync.Mutex hands
\* the lock to a waiter that has starved).  The clock starts in the unit of
\* the start time, where the first call sleeps, or at the time limit, where
\* the calls fail.
LiveClockValues == {ClockAt(Zero), ClockAt(TimeLimit)}

LiveInit == InitGens({1}, LiveClockValues)

LiveNext ==
  \/ \E v \in LiveClockValues : TickForward(v)
  \/ \E t \in Threads :
       \/ CountedCall(t, 1, "NextID", 1)
       \/ \E num \in {0, MaxNum} : CountedCall(t, 1, "NextIDs", num)
       \/ Step(t)

Fairness ==
  \A t \in Threads :
    /\ WF_vars(NextIDStep(t) \/ Sleep(t) \/ ToID(t) \/ Return(t))
    /\ SF_vars(Lock(t))

SpecLive == LiveInit /\ [][LiveNext]_vars /\ Fairness

\* SpecNew: construction alone.  NewSnooflake is called with Settings drawn
\* from the cases of each field, on a host with or without a private
\* address.
Hour == MulSmall(MulSmall(WordOfNat(60 * 60), 1000), NanosPerSecond \div 1000)

StartTimeSamples ==
  {ZeroTime, T0, Now,
   TimeOf(Sub(clock, One)), TimeOf(Add(clock, One)),
   TimeOf(Add(clock, Hour))}

MachineIDOf(id) == [nil |-> FALSE, id |-> id, err |-> NoErr, accepts |-> {}]
MachineIDFails ==
  [nil |-> FALSE, id |-> 0, err |-> "machine id error", accepts |-> {}]
MachineIDFuncs ==
  {NoFunc, MachineIDOf(0), MachineIDOf(2^BitLenMachineID - 1), MachineIDFails}

CheckMachineIDOf(ids) ==
  [nil |-> FALSE, id |-> 0, err |-> NoErr, accepts |-> ids]
CheckMachineIDFuncs ==
  {NoFunc, CheckMachineIDOf({}), CheckMachineIDOf({0}),
   CheckMachineIDOf({0, PrivateIP.id, 2^BitLenMachineID - 1})}

NoPrivateIP == [nil |-> FALSE, id |-> 0, err |-> ErrNoPrivateIP, accepts |-> {}]

NewInit ==
  /\ InitGens({}, {ClockAt(Zero), ClockAt(WordOfNat(25))})

\* sf := NewSnooflake(st)
New(st, privateIP) ==
  /\ sf' = [sf EXCEPT ![1] = NewSnooflake(st, Now, privateIP)]
  /\ nin' = [done |-> TRUE, st |-> st, privateIP |-> privateIP]
  /\ UNCHANGED <<clock, mutex, pc, fr, hist, run, failed, wraps, calls,
                  cin, cout>>

NewNext ==
  \E start \in StartTimeSamples, mid \in MachineIDFuncs,
     check \in CheckMachineIDFuncs, ip \in {PrivateIP, NoPrivateIP} :
    New([StartTime |-> start, MachineID |-> mid, CheckMachineID |-> check],
        ip)

SpecNew == NewInit /\ [][NewNext]_vars

\* ------------------------------------------------------------------------
\* Properties
\* ------------------------------------------------------------------------

\* Thread t is inside a call on generator g, holding or about to release
\* the lock.
InCall(t, g) ==
  /\ pc[t] \in {"nextID", "sleep", "toID", "return"}
  /\ fr[t].g = g

\* The fields of a uint64 by the bit layout, read off its bytes: machine ID
\* in bits 0..15, sequence in bits 16..23, time in bits 24..62, bit 63.
FieldMachineID(x) == <<x[1], x[2], 0, 0, 0, 0, 0, 0>>
FieldSequence(x) == <<x[3], 0, 0, 0, 0, 0, 0, 0>>
FieldTime(x) == <<x[4], x[5], x[6], x[7], x[8] % (ByteBase \div 2), 0, 0, 0>>
FieldMsb(x) == <<x[8] \div (ByteBase \div 2), 0, 0, 0, 0, 0, 0, 0>>
\* Bits 24..63 as one number: the time field with bit 63 on top of it.
FieldTimeAndMsb(x) == <<x[4], x[5], x[6], x[7], x[8], 0, 0, 0>>

\* C1: every successful NextID returns a value strictly greater than the
\* value the previous successful NextID on the same generator returned,
\* whatever the clock did in between (stalled, advanced, jumped backward).
C1_NextIDMonotone ==
  \A t \in Threads :
    (/\ pc[t] = "return"
     /\ fr[t].op = "NextID"
     /\ fr[t].err = NoErr
     /\ Len(hist[fr[t].g]) >= 2)
    => LET h == hist[fr[t].g]
       IN  /\ h[Len(h)].id = fr[t].ids[1]
           /\ ULess(h[Len(h) - 1].id, fr[t].ids[1])

\* C1 witness: a second or later NextID succeeds although its clock reading
\* was behind the generator's elapsedTime (the clock had jumped backward).
C1_Witness ==
  /\ pc[1] = "return"
  /\ fr[1].op = "NextID"
  /\ fr[1].err = NoErr
  /\ fr[1].saw = "behind"
  /\ Len(hist[1]) >= 2

\* C2: under concurrent NextID and NextIDs on one generator at most one
\* thread is inside an allocation at a time, and the IDs come out strictly
\* increasing in the order they were issued, hence without duplicates.
C2_Serialized ==
  \A g \in Gens :
    /\ \A t \in Threads, u \in Threads :
         (t # u) => ~(InCall(t, g) /\ InCall(u, g))
    /\ \A i \in 1..(Len(hist[g]) - 1) :
         ULess(hist[g][i].id, hist[g][i + 1].id)

\* C2 witness: two threads have issued IDs of the same generator one after
\* the other, and the second is about to return its result.
C2_Witness ==
  /\ Len(hist[1]) >= 2
  /\ hist[1][1].by # hist[1][2].by
  /\ \E t \in Threads :
       pc[t] = "return" /\ fr[t].i >= 1 /\ hist[1][2].by = t

\* C3: generators constructed with different machine IDs never issue the
\* same ID, whatever their start times: every ID carries the machine ID of
\* its generator in bits 0..15.
C3_DistinctAcrossMachines ==
  \A g \in Gens, h \in Gens :
    (g # h /\ ~sf[g].nil /\ ~sf[h].nil /\ sf[g].machineID # sf[h].machineID)
    => \A i \in 1..Len(hist[g]), j \in 1..Len(hist[h]) :
         /\ hist[g][i].id # hist[h][j].id
         /\ FieldMachineID(hist[g][i].id) = WordOfNat(sf[g].machineID)

\* C3 witness: two generators with different start times have issued IDs
\* with equal time and sequence fields.
C3_Witness ==
  \E g \in Gens, h \in Gens :
    /\ g # h
    /\ ~sf[g].nil /\ ~sf[h].nil
    /\ sf[g].startTime # sf[h].startTime
    /\ \E i \in 1..Len(hist[g]), j \in 1..Len(hist[h]) :
         /\ FieldTime(hist[g][i].id) = FieldTime(hist[h][j].id)
         /\ FieldSequence(hist[g][i].id) = FieldSequence(hist[h][j].id)

\* C4: a call never returns an ID whose time field is 2^39 or more: when
\* elapsedTime is 2^39 or more after the allocation step the call fails
\* with the over-the-time-limit error, and every ID returned is below 2^63
\* with a time field below 2^39.
C4_TimeLimit ==
  \A t \in Threads :
    (pc[t] = "return" /\ fr[t].op = "NextID")
    => /\ ~SLess(sf[fr[t].g].elapsedTime, TimeLimit)
            => fr[t].err = ErrOverTime
       /\ fr[t].err = NoErr
            => /\ FieldMsb(fr[t].ids[1]) = Zero
               /\ ULess(FieldTimeAndMsb(fr[t].ids[1]), TimeLimit)
               /\ FieldTime(fr[t].ids[1]) = sf[fr[t].g].elapsedTime

\* C4 witness: the sequence wrapped at elapsedTime 2^39 - 1, elapsedTime
\* became exactly 2^39 and the call returns the error.
C4_Witness ==
  /\ pc[1] = "return"
  /\ fr[1].err = ErrOverTime
  /\ fr[1].saw = "same"
  /\ sf[1].elapsedTime = TimeLimit
  /\ sf[1].sequence = 0
  /\ Len(hist[1]) >= 2

\* C5: a NextIDs(N) that fails at item k < N returns exactly the k IDs it
\* issued before the failure, ascending, with the error, and nothing else.
C5_FailedBatchReturnsIssued ==
  \A t \in Threads :
    (pc[t] = "return" /\ fr[t].op = "NextIDs" /\ fr[t].err # NoErr)
    => /\ fr[t].i < fr[t].num
       /\ Len(fr[t].ids) = fr[t].i
       /\ \A k \in 1..(Len(fr[t].ids) - 1) :
            ULess(fr[t].ids[k], fr[t].ids[k + 1])

\* C6: NextIDs holds the generator's lock for its whole batch, so the IDs
\* of the batch are the last IDs the generator issued, in issue order, with
\* no ID of another call among them.
C6_BatchConsecutive ==
  \A t \in Threads :
    (InCall(t, fr[t].g) /\ fr[t].op = "NextIDs")
    => LET g == fr[t].g
           n == Len(hist[g])
       IN  /\ mutex[g] = t
           /\ fr[t].i <= n
           /\ \A k \in 1..fr[t].i :
                hist[g][n - fr[t].i + k] = [id |-> fr[t].ids[k], by |-> t]

\* C6 witness: a batch of two or more IDs is complete while another thread
\* has been waiting for the lock of the same generator.
C6_Witness ==
  \E t \in Threads, u \in Threads :
    /\ t # u
    /\ pc[t] = "return"
    /\ fr[t].op = "NextIDs"
    /\ fr[t].i >= 2
    /\ fr[t].err = NoErr
    /\ pc[u] = "lock"
    /\ fr[u].g = fr[t].g

\* C7: exhaustion is permanent: once an allocation of a generator has
\* failed, every NextID and every NextIDs(N > 0) that returns on it returns
\* the error, wherever the clock has moved.
C7_ExhaustionPermanent ==
  \A t \in Threads :
    (/\ pc[t] = "return"
     /\ failed[fr[t].g] >= 1
     /\ ~(fr[t].op = "NextIDs" /\ fr[t].num = 0))
    => /\ fr[t].err = ErrOverTime
       /\ ~SLess(sf[fr[t].g].elapsedTime, TimeLimit)

\* C7 witness: a second allocation fails although the clock it read was
\* back under the time limit.
C7_Witness ==
  \E t \in Threads :
    /\ pc[t] = "return"
    /\ failed[fr[t].g] = 2
    /\ fr[t].err = ErrOverTime
    /\ fr[t].saw = "behind"
    /\ SLess(currentElapsedTime(sf[fr[t].g].startTime, TimeOf(fr[t].read)),
             TimeLimit)

\* C8: with the clock at T0 + 25 msec, the first allocation of a new
\* generator yields an ID whose time decodes to 2 and whose sequence
\* decodes to 0.
C8_FirstIDInTenMsecUnits ==
  \A t \in Threads :
    (/\ pc[t] = "return"
     /\ fr[t].op = "NextID"
     /\ fr[t].err = NoErr
     /\ fr[t].read = ClockAt(WordOfNat(25))
     /\ failed[fr[t].g] = 0
     /\ Len(hist[fr[t].g]) = 1)
    => /\ Decompose(fr[t].ids[1])["time"] = WordOfNat(2)
       /\ Decompose(fr[t].ids[1])["sequence"] = Zero

\* C9: for 0 <= t < 2^39, 0 <= s <= 255 and any 16-bit m, Decompose of the
\* ID that toID makes of (t, s, m) gives back time t, sequence s and
\* machine-id m, with msb 0.
C9_RoundTrip ==
  (cout.done /\ cin.made)
  => /\ cout.parts["time"] = cin.t
     /\ cout.parts["sequence"] = WordOfNat(cin.s)
     /\ cout.parts["machine-id"] = WordOfNat(cin.m)
     /\ cout.parts["msb"] = Zero
     /\ cout.parts["id"] = cin.id

\* C9 witness: the round trip of the largest fields, 2^39 - 1, 255 and
\* 2^16 - 1.
C9_Witness ==
  /\ cout.done
  /\ cin.made
  /\ cin.t = Sub(TimeLimit, One)
  /\ cin.s = 2^BitLenSequence - 1
  /\ cin.m = 2^BitLenMachineID - 1

\* C10: Decompose accepts every uint64 and returns id unchanged, msb = bit
\* 63, sequence = bits 16..23, machine-id = bits 0..15 and time = id
\* shifted right by 24, that is bits 24..63: the 39-bit time field when bit
\* 63 is 0, and that field plus 2^39 when bit 63 is 1.
C10_DecomposeLayout ==
  cout.done
  => /\ DOMAIN cout.parts = {"id", "msb", "time", "sequence", "machine-id"}
     /\ cout.parts["id"] = cin.id
     /\ cout.parts["msb"] = FieldMsb(cin.id)
     /\ cout.parts["time"] = FieldTimeAndMsb(cin.id)
     /\ cout.parts["sequence"] = FieldSequence(cin.id)
     /\ cout.parts["machine-id"] = FieldMachineID(cin.id)
     /\ FieldMsb(cin.id) = Zero => cout.parts["time"] = FieldTime(cin.id)

\* C10 witness: Decompose has run on 2^64 - 1, which no generator issues.
C10_Witness ==
  /\ cout.done
  /\ ~cin.made
  /\ cin.id = Not(Zero)

\* C10 as first stated: time is the 39-bit field in bits 24..62 for every
\* uint64, 2^64 - 1 included.
C10_TimeIsBits24To62 ==
  cout.done
  => /\ cout.parts["id"] = cin.id
     /\ cout.parts["msb"] = FieldMsb(cin.id)
     /\ cout.parts["time"] = FieldTime(cin.id)
     /\ cout.parts["sequence"] = FieldSequence(cin.id)
     /\ cout.parts["machine-id"] = FieldMachineID(cin.id)

\* C11: when the first of 257 NextID calls that read the same time unit u
\* off the clock finds elapsedTime below u (as a new generator started in
\* an earlier unit does), the first 256 IDs carry time u and the 257th
\* carries u + 1.
C11_ForcedAdvance ==
  \A t \in Threads :
    (/\ pc[t] = "return"
     /\ fr[t].op = "NextID"
     /\ fr[t].err = NoErr
     /\ run[fr[t].g].n >= 1
     /\ run[fr[t].g].adv)
    => LET r == run[fr[t].g]
       IN  /\ r.first = r.unit
           /\ r.n <= 2^BitLenSequence
                => FieldTime(fr[t].ids[1]) = r.unit
           /\ r.n = 2^BitLenSequence + 1
                => /\ FieldTime(fr[t].ids[1]) = Add(r.unit, One)
                   /\ fr[t].saw = "same"

\* C11 witness: the 257th call of such a run returns.
C11_Witness ==
  /\ pc[1] = "return"
  /\ fr[1].err = NoErr
  /\ run[1].adv
  /\ run[1].n = 2^BitLenSequence + 1
  /\ FieldSequence(fr[1].ids[1]) = Zero

\* C11 as first stated: of any 257 calls in a row that read the same time
\* unit, the first 256 return the time field t of the first and the 257th
\* returns t + 1.
C11_AnyRunOf257 ==
  \A t \in Threads :
    (/\ pc[t] = "return"
     /\ fr[t].op = "NextID"
     /\ fr[t].err = NoErr
     /\ run[fr[t].g].n >= 1)
    => LET r == run[fr[t].g]
       IN  /\ r.n <= 2^BitLenSequence
                => FieldTime(fr[t].ids[1]) = r.first
           /\ r.n = 2^BitLenSequence + 1
                => FieldTime(fr[t].ids[1]) = Add(r.first, One)

\* C12: NewSnooflake returns nil exactly when the start time is strictly
\* after the current time, or the machine ID provider (the one given, or
\* the private address when none is given) returns an error, or a validator
\* is given and rejects the machine ID; otherwise it returns a generator
\* with that start time and machine ID.
C12_NewSnooflakeNil ==
  nin.done
  => LET st == nin.st
         resolved == IF st.MachineID.nil THEN nin.privateIP ELSE st.MachineID
         future == ~st.StartTime.zero /\ SLess(clock, st.StartTime.nano)
         rejected == /\ ~st.CheckMachineID.nil
                     /\ resolved.id \notin st.CheckMachineID.accepts
     IN  /\ sf[1].nil <=> (future \/ resolved.err # NoErr \/ rejected)
         /\ ~sf[1].nil
              => /\ sf[1].machineID = resolved.id
                 /\ sf[1].startTime =
                      toSnooflakeTime(IF st.StartTime.zero
                                      THEN DefaultStartTime ELSE st.StartTime)

\* C12 witness: a generator is returned with the start time equal to the
\* current time and a validator that accepts the private address.
C12_Witness ==
  /\ nin.done
  /\ ~sf[1].nil
  /\ nin.st.StartTime = Now
  /\ nin.st.MachineID.nil
  /\ ~nin.st.CheckMachineID.nil
  /\ sf[1].machineID = PrivateIP.id

\* C13: elapsedTime never decreases: no step of any call, successful or
\* failing, and no movement of the clock, backward jumps included, leaves
\* a generator's elapsedTime below its value before the step.
C13_ElapsedTimeNonDecreasing ==
  [][\A g \in Gens :
       ~sf[g].nil
       => /\ ~sf'[g].nil
          /\ ~SLess(sf'[g].elapsedTime, sf[g].elapsedTime)
          /\ sf'[g].startTime = sf[g].startTime]_vars

\* C13 witness: nextID has run with the clock behind elapsedTime, after an
\* ID was issued, and kept elapsedTime.
C13_Witness ==
  /\ pc[1] = "toID"
  /\ fr[1].saw = "behind"
  /\ hist[1] # <<>>
  /\ SLess(currentElapsedTime(sf[1].startTime, TimeOf(fr[1].read)),
           sf[1].elapsedTime)

\* C14: a generator issues at most 256 IDs with any one time field, with
\* pairwise distinct sequence fields: the IDs issued in a row with the
\* time field of the last one number at most 2^8, the k-th of them has
\* sequence k - 1, and IDs issued later have a greater time field.
C14_AtMost256PerTime ==
  \A g \in Gens :
    hist[g] # <<>>
    => LET n == Len(hist[g])
           last == hist[g][n].id
       IN  /\ run[g].same >= 1
           /\ run[g].same <= 2^BitLenSequence
           /\ FieldSequence(last) = WordOfNat(run[g].same - 1)
           /\ n >= 2
                => \/ ULess(FieldTime(hist[g][n - 1].id), FieldTime(last))
                   \/ /\ FieldTime(hist[g][n - 1].id) = FieldTime(last)
                      /\ ULess(FieldSequence(hist[g][n - 1].id),
                               FieldSequence(last))

\* C14 witness: the 256th ID of one time value has been issued, with the
\* clock still in that unit.
C14_Witness ==
  /\ pc[1] = "return"
  /\ fr[1].err = NoErr
  /\ run[1].same = 2^BitLenSequence
  /\ fr[1].saw = "same"
  /\ FieldSequence(fr[1].ids[1]) = WordOfNat(2^BitLenSequence - 1)

\* C15: with a clock that never goes back, a call whose sequence wrapped
\* sleeps until the clock has reached the unit it borrowed: the sleep asked
\* for is positive and at most one time unit, and when any allocation
\* returns, the current time unit is at least elapsedTime.
C15_SleepReachesBorrowedUnit ==
  \A t \in Threads :
    LET g == fr[t].g
    IN  /\ pc[t] = "sleep"
             => /\ fr[t].overtime = One
                /\ SLess(Zero, sleepTime(fr[t].overtime, Now))
                /\ ~SLess(WordOfNat(snooflakeTimeUnit),
                          sleepTime(fr[t].overtime, Now))
        /\ pc[t] = "return"
             => ~SLess(currentElapsedTime(sf[g].startTime, Now),
                       sf[g].elapsedTime)

\* C15 witness: a call that wrapped has slept and returns with the clock
\* exactly at the start of the unit it borrowed, after IDs of the unit
\* before.
C15_Witness ==
  /\ pc[1] = "return"
  /\ fr[1].err = NoErr
  /\ fr[1].overtime = One
  /\ Len(hist[1]) >= 2
  /\ currentElapsedTime(sf[1].startTime, Now) = sf[1].elapsedTime
  /\ Rem(clock, snooflakeTimeUnit) = 0

\* C16: the sleep of the sequence-overflow branch happens with the lock
\* held: while a thread is in that sleep it holds the generator's mutex, no
\* other thread is inside an allocation of the same generator, and no step
\* taken while it sleeps changes elapsedTime or sequence or issues an ID of
\* that generator.
C16_SleepHoldsLock ==
  [][\A t \in Threads :
       pc[t] = "sleep"
       => LET g == fr[t].g
          IN  /\ mutex[g] = t
              /\ \A u \in Threads \ {t} : ~InCall(u, g)
              /\ pc'[t] = "sleep"
                   => /\ sf'[g] = sf[g]
                      /\ hist'[g] = hist[g]
                      /\ mutex'[g] = t
                      /\ \A u \in Threads \ {t} : ~InCall(u, g)']_vars

\* C16 witness: one thread sleeps in the overflow branch while another has
\* called the same generator and waits for the lock.
C16_Witness ==
  \E t \in Threads, u \in Threads :
    /\ t # u
    /\ pc[t] = "sleep"
    /\ pc[u] = "lock"
    /\ fr[u].g = fr[t].g
    /\ mutex[fr[t].g] = t

\* C17: of two IDs a generator issues one after the other, the second has
\* either a greater time field and sequence 0, or the same time field and
\* a sequence exactly one greater.
C17_SequenceResets ==
  \A g \in Gens :
    \A i \in 1..(Len(hist[g]) - 1) :
      LET a == hist[g][i].id
          b == hist[g][i + 1].id
      IN  IF ULess(FieldTime(a), FieldTime(b))
          THEN FieldSequence(b) = Zero
          ELSE /\ FieldTime(b) = FieldTime(a)
               /\ FieldSequence(b) = Add(FieldSequence(a), One)

\* C17 witness: the clock advanced in the middle of a sequence and the next
\* ID starts the new time value at sequence 0.
C17_Witness ==
  /\ Len(hist[1]) >= 2
  /\ LET n == Len(hist[1])
     IN  /\ ULess(FieldTime(hist[1][n - 1].id), FieldTime(hist[1][n].id))
         /\ FieldSequence(hist[1][n - 1].id) = One
         /\ FieldSequence(hist[1][n].id) = Zero

\* C18: a new generator has sequence 2^8 - 1 and elapsedTime 0 until its
\* first nextID runs, and its first successful allocation returns an ID
\* with sequence 0, whether the clock is past the start time's unit (the
\* time advances) or still in it (the sequence wraps from 2^8 - 1).
C18_FirstSequenceZero ==
  \A g \in Gens :
    ~sf[g].nil
    => /\ (/\ hist[g] = <<>>
           /\ failed[g] = 0
           /\ \A t \in Threads :
                fr[t].g = g => pc[t] \in {"idle", "lock", "nextID"})
            => /\ sf[g].sequence = 2^BitLenSequence - 1
               /\ sf[g].elapsedTime = Zero
       /\ Len(hist[g]) = 1
            => FieldSequence(hist[g][1].id) = Zero
       /\ \A t \in Threads :
            (/\ pc[t] = "return"
             /\ fr[t].g = g
             /\ fr[t].op = "NextID"
             /\ fr[t].err = NoErr
             /\ Len(hist[g]) = 1)
            => FieldSequence(fr[t].ids[1]) = Zero

\* C18 witness: the first allocation ran with the clock in the unit of the
\* start time, took the advance-sequence branch and returns sequence 0.
C18_Witness ==
  /\ pc[1] = "return"
  /\ fr[1].err = NoErr
  /\ Len(hist[1]) = 1
  /\ fr[1].saw = "same"
  /\ currentElapsedTime(sf[1].startTime, TimeOf(fr[1].read)) = Zero
  /\ FieldSequence(fr[1].ids[1]) = Zero
  /\ FieldTime(fr[1].ids[1]) = One

\* C19: every allocation call eventually returns and releases the lock:
\* under fair scheduling each NextID and NextIDs call that has started,
\* successful or failing, gets back to its caller, and a held mutex is
\* eventually free again.
C19_CallsTerminate ==
  /\ \A t \in Threads : (pc[t] # "idle") ~> (pc[t] = "idle")
  /\ \A g \in Gens : (mutex[g] # 0) ~> (mutex[g] = 0)

\* C19 witness: a failing NextIDs is about to return while another thread
\* waits for the lock.
C19_Witness ==
  \E t \in Threads, u \in Threads :
    /\ t # u
    /\ pc[t] = "return"
    /\ fr[t].op = "NextIDs"
    /\ fr[t].err = ErrOverTime
    /\ pc[u] = "lock"
    /\ mutex[1] = t

\* C20: Decompose loses no information: for every uint64 id the fields it
\* returns recombine to the input, (time << 24) | (sequence << 16) |
\* machine-id = id, with sequence < 2^8 and machine-id < 2^16.
C20_DecomposeLossless ==
  cout.done
  => LET parts == cout.parts
     IN  /\ Or(Or(Shl(parts["time"], BitLenSequence + BitLenMachineID),
                  Shl(parts["sequence"], BitLenMachineID)),
               parts["machine-id"]) = cin.id
         /\ ULess(parts["sequence"], WordOfNat(2^BitLenSequence))
         /\ ULess(parts["machine-id"], WordOfNat(2^BitLenMachineID))
         /\ <<parts["machine-id"][1], parts["machine-id"][2],
              parts["sequence"][1], parts["time"][1], parts["time"][2],
              parts["time"][3], parts["time"][4], parts["time"][5]>> = cin.id

\* C20 witness: Decompose has run on a word with bit 63 set and mixed bits
\* in every field.
C20_Witness ==
  /\ cout.done
  /\ ~cin.made
  /\ cin.id = [i \in Idx |-> 170]

=============================================================================
